---- MODULE Spec2Model ----
(***************************************************************************)
(* Model of the assistant service of the chat application                  *)
(* (src/src/server/services/assistant.ts, the revision that starts at line *)
(* 484): the Live Client OpenRouterAssistant, the selector createAssistant *)
(* and the environment they run in (provider, timers, caller's signal).    *)
(*                                                                         *)
(* Strings are TLA+ strings; the JavaScript string operations the code     *)
(* uses (includes, toLowerCase, trim, startsWith, template literals) are   *)
(* computed character by character.  Costs are integers in units of 1e-8   *)
(* dollars so that the cost table keeps its exact ratios.                  *)
(***************************************************************************)
EXTENDS Integers, Sequences, FiniteSets, TLC

\* ------------------------------------------------------------------------
\* Bounds of the model
\* ------------------------------------------------------------------------

\* number of getResponse calls made on one assistant instance
MaxCalls == 3

\* getResponse calls in flight at the same time on one instance
MaxConcurrent == 2

\* ------------------------------------------------------------------------
\* JavaScript string operations
\* ------------------------------------------------------------------------

\* String.prototype.includes
Includes(s, kw) ==
  \E i \in 1..(Len(s) - Len(kw) + 1) : SubSeq(s, i, i + Len(kw) - 1) = kw

\* String.prototype.startsWith
StartsWith(s, prefix) ==
  /\ Len(s) >= Len(prefix)
  /\ SubSeq(s, 1, Len(prefix)) = prefix

UpperCase == <<"A","B","C","D","E","F","G","H","I","J","K","L","M",
               "N","O","P","Q","R","S","T","U","V","W","X","Y","Z">>

LowerCase == <<"a","b","c","d","e","f","g","h","i","j","k","l","m",
               "n","o","p","q","r","s","t","u","v","w","x","y","z">>

LowerChar(c) ==
  IF \E k \in 1..26 : UpperCase[k] = c
    THEN LowerCase[CHOOSE k \in 1..26 : UpperCase[k] = c]
    ELSE c

RECURSIVE ToLowerCase(_)
\* String.prototype.toLowerCase
ToLowerCase(s) ==
  IF Len(s) = 0 THEN ""
  ELSE LowerChar(SubSeq(s, 1, 1)) \o ToLowerCase(SubSeq(s, 2, Len(s)))

IsSpace(c) == c \in {" ", "\t", "\n"}

RECURSIVE TrimStart(_)
TrimStart(s) ==
  IF Len(s) > 0 /\ IsSpace(SubSeq(s, 1, 1))
    THEN TrimStart(SubSeq(s, 2, Len(s)))
    ELSE s

RECURSIVE TrimEnd(_)
TrimEnd(s) ==
  IF Len(s) > 0 /\ IsSpace(SubSeq(s, Len(s), Len(s)))
    THEN TrimEnd(SubSeq(s, 1, Len(s) - 1))
    ELSE s

\* String.prototype.trim
Trim(s) == TrimEnd(TrimStart(s))

\* IsBlank without the trim
IsBlank_NoTrim(s) == s = ""

\* `!s || s.trim() === ''` for a string s
IsBlank(s) == s = "" \/ Trim(s) = ""

\* ------------------------------------------------------------------------
\* Errors thrown inside the Live Client
\* ------------------------------------------------------------------------

Error(msg) == [name |-> "Error", message |-> msg]

CancelledError == Error("Request was cancelled")

EmptyMessageError == Error("User message cannot be empty")

EmptyResponseError == Error("Assistant response is empty")

InvalidFormatError == Error("Invalid response format from OpenRouter API")

\* what the runtime throws for data.choices[0].message.content when the
\* first choice has no message
NoMessageTypeError ==
  [name |-> "TypeError",
   message |-> "Cannot read properties of undefined (reading 'content')"]

\* what response.json() rejects with when the body is not JSON
JsonSyntaxError ==
  [name |-> "SyntaxError",
   message |-> "Unexpected token < in JSON at position 0"]

\* what fetch rejects with when its AbortSignal fires
AbortError == [name |-> "AbortError", message |-> "This operation was aborted"]

\* HttpError without the per-status messages
HttpError_NoStatusCases(status, errorText) ==
  Error("OpenRouter API error: " \o ToString(status) \o " - " \o errorText)

\* the error thrown for a response whose status is not 2xx
HttpError(status, errorText) ==
  IF status = 401
    THEN Error("Invalid API key. Please check your OpenRouter API key configuration.")
  ELSE IF status = 402
    THEN Error("Insufficient credits. Please check your OpenRouter account balance.")
  ELSE IF status = 429
    THEN Error("Rate limit exceeded. Please wait a moment before trying again.")
  ELSE IF status >= 500
    THEN Error("OpenRouter service is temporarily unavailable. Please try again in a moment.")
  ELSE Error("OpenRouter API error: " \o ToString(status) \o " - " \o errorText)

\* the inner catch of fetchResponse: aborts become 'Request was cancelled'
InnerCatch(error) ==
  IF error.name = "AbortError" \/ Includes(error.message, "cancelled")
    THEN CancelledError
    ELSE error

maxRetries == 2

\* isRetryable that takes every error for transient
isRetryable_Always(error) == TRUE

isRetryable(error) ==
  LET errorMsg == ToLowerCase(error.message)
  IN  \/ Includes(errorMsg, "rate limit")
      \/ Includes(errorMsg, "timeout")
      \/ Includes(errorMsg, "network")
      \/ Includes(errorMsg, "500")
      \/ Includes(errorMsg, "502")
      \/ Includes(errorMsg, "503")

\* ShouldRetry that compares with <= instead of <
ShouldRetry_OffByOne(retryCount, error) ==
  retryCount <= maxRetries /\ isRetryable(error)

\* the retry decision of the outer catch of fetchResponse
ShouldRetry(retryCount, error) ==
  retryCount < maxRetries /\ isRetryable(error)

\* BackoffDelay without the doubling
BackoffDelay_Fixed(retryCount) == 1000

\* Math.pow(2, retryCount) * 1000, in milliseconds
BackoffDelay(retryCount) == (2 ^ retryCount) * 1000

\* ------------------------------------------------------------------------
\* User-facing messages chosen by the catch block of getResponse
\* ------------------------------------------------------------------------

GenericMessage == "Sorry, I encountered an error. Please try again."

TimeoutMessage ==
  "The AI service is taking too long to respond. Please try again in a moment."

RateLimitMessage == "Too many requests. Please wait a moment before trying again."

ConfigMessage == "AI service configuration issue. Please check your API settings."

QuotaMessage ==
  "AI service quota exceeded. Please check your account or try again later."

NetworkMessage ==
  "Network connection issue. Please check your internet connection and try again."

DemoMessage ==
  "Demo mode error. This is a showcase - in production, this would connect to real AI models."

ClientFallbackResponse ==
  "This is a client-side fallback response. Please use the server-side API."

\* errorMessage that hands the text of the error to the user
errorMessage_Raw(error, demo) == error.message

errorMessage(error, demo) ==
  LET errorMsg == ToLowerCase(error.message)
      specific ==
        IF Includes(errorMsg, "timeout") \/ Includes(errorMsg, "abort")
          THEN TimeoutMessage
        ELSE IF Includes(errorMsg, "rate limit") \/ Includes(errorMsg, "too many requests")
          THEN RateLimitMessage
        ELSE IF Includes(errorMsg, "unauthorized") \/ Includes(errorMsg, "api key")
          THEN ConfigMessage
        ELSE IF Includes(errorMsg, "quota") \/ Includes(errorMsg, "billing")
          THEN QuotaMessage
        ELSE IF Includes(errorMsg, "network") \/ Includes(errorMsg, "fetch")
          THEN NetworkMessage
        ELSE GenericMessage
  IN  IF demo THEN DemoMessage ELSE specific

\* ------------------------------------------------------------------------
\* Model selection, cost estimation, usage counter, request payload
\* ------------------------------------------------------------------------

DefaultModel == "anthropic/claude-3-haiku"

\* selectModel that draws one of validModels when no override is set
selectModel_AnyValidModel(envModel) ==
  IF envModel # "" THEN envModel ELSE "anthropic/claude-3-sonnet"

\* envModel is process.env.OPENROUTER_MODEL, "" when unset
selectModel(envModel) ==
  IF envModel # "" THEN envModel ELSE DefaultModel

CostModels ==
  {"anthropic/claude-3-haiku", "anthropic/claude-3-sonnet", "anthropic/claude-3-opus",
   "meta-llama/llama-3.1-8b-instruct", "openai/gpt-4o-mini"}

\* the cost table, in units of 1e-8 dollars per token
costPerToken(model) ==
  CASE model = "anthropic/claude-3-haiku" -> 25
    [] model = "anthropic/claude-3-sonnet" -> 300
    [] model = "anthropic/claude-3-opus" -> 1500
    [] model = "meta-llama/llama-3.1-8b-instruct" -> 20
    [] model = "openai/gpt-4o-mini" -> 15

\* the rate for a model that is not in the table
DefaultCostPerToken == 100

\* names every object inherits from Object.prototype: costPerToken is an
\* object literal, so costPerToken[model] is a function (an object for
\* '__proto__') for these names, which is truthy and not a number
ObjectPrototypeKeys ==
  {"constructor", "toString", "valueOf", "hasOwnProperty", "__proto__"}

\* the result of multiplying by what is not a number; no cost is negative, so
\* the value is told from every cost and NaN > 0, NaN >= 0 are false as in
\* JavaScript
NaN == -1

\* Math.ceil(response.length / 4) * (costPerToken[model] || 0.000001)
estimateCost(response, model) ==
  LET tokens == (Len(response) + 3) \div 4
  IN  IF model \in CostModels THEN tokens * costPerToken(model)
      ELSE IF model \in ObjectPrototypeKeys THEN NaN
      ELSE tokens * DefaultCostPerToken

\* modelUsage is the Map model -> count, a function on the keys it holds
\* recordModelUsage that sets the count instead of adding to it
recordModelUsage_Overwrite(usage, model) == (model :> 1) @@ usage

recordModelUsage(usage, model) ==
  LET currentCount == IF model \in DOMAIN usage THEN usage[model] ELSE 0
  IN  [m \in (DOMAIN usage) \cup {model} |->
         IF m = model THEN currentCount + 1 ELSE usage[m]]

RECURSIVE SumCounts(_, _)
\* Array.from(usage.values()).reduce((sum, count) => sum + count, 0)
SumCounts(usage, keys) ==
  IF keys = {} THEN 0
  ELSE LET k == CHOOSE x \in keys : TRUE
       IN  usage[k] + SumCounts(usage, keys \ {k})

\* JavaScript numbers are IEEE 754 doubles.  A positive number is the record
\* [bits, e]: the binary numeral bits (most significant bit first) times 2^e.
MantissaBits == 53
FractionBits == 60

RECURSIVE IntBits(_)
\* the binary numeral of a natural number (<<>> for 0)
IntBits(n) == IF n = 0 THEN <<>> ELSE IntBits(n \div 2) \o <<n % 2>>

RECURSIVE PowMod(_, _)
\* 2^i modulo den
PowMod(i, den) ==
  IF i = 0 THEN 1 % den
  ELSE LET h == PowMod(i \div 2, den)
       IN  (h * h * (IF i % 2 = 1 THEN 2 ELSE 1)) % den

\* the first n binary digits of r / den (r < den), then one digit that is 1
\* iff the digits left out are not all 0
FracBits(r, den, n) ==
  [i \in 1..n |-> (2 * ((r * PowMod(i - 1, den)) % den)) \div den]
    \o <<IF (r * PowMod(n, den)) % den = 0 THEN 0 ELSE 1>>

StripLeading(bits) ==
  IF \A i \in 1..Len(bits) : bits[i] = 0 THEN <<>>
  ELSE LET k == CHOOSE i \in 1..Len(bits) :
                  bits[i] = 1 /\ \A j \in 1..(i - 1) : bits[j] = 0
       IN  SubSeq(bits, k, Len(bits))

\* the same number without leading or trailing zero digits
Canonical(x) ==
  LET b == StripLeading(x.bits)
  IN  IF b = <<>> THEN [bits |-> <<>>, e |-> 0]
      ELSE LET k == CHOOSE i \in 1..Len(b) :
                      b[i] = 1 /\ \A j \in (i + 1)..Len(b) : b[j] = 0
           IN  [bits |-> SubSeq(b, 1, k), e |-> x.e + (Len(b) - k)]

\* numerals are added and multiplied in limbs of 10 binary digits
LimbBits == 10
LimbBase == 2 ^ LimbBits

RECURSIVE LimbValue(_)
LimbValue(bits) ==
  IF bits = <<>> THEN 0
  ELSE 2 * LimbValue(SubSeq(bits, 1, Len(bits) - 1)) + bits[Len(bits)]

ToLimbs(bits) ==
  LET n == (Len(bits) + LimbBits - 1) \div LimbBits
      p == [i \in 1..(n * LimbBits - Len(bits)) |-> 0] \o bits
  IN  [j \in 1..n |-> LimbValue(SubSeq(p, (j - 1) * LimbBits + 1, j * LimbBits))]

FromLimbs(limbs) ==
  [i \in 1..(Len(limbs) * LimbBits) |->
     (limbs[(i - 1) \div LimbBits + 1]
        \div (2 ^ (LimbBits - 1 - ((i - 1) % LimbBits)))) % 2]

RECURSIVE MulLimbs(_, _, _)
MulLimbs(limbs, k, carry) ==
  IF limbs = <<>> THEN (IF carry = 0 THEN <<>> ELSE <<carry>>)
  ELSE LET t == limbs[Len(limbs)] * k + carry
       IN  MulLimbs(SubSeq(limbs, 1, Len(limbs) - 1), k, t \div LimbBase)
             \o <<t % LimbBase>>

RECURSIVE AddLimbs(_, _, _)
AddLimbs(a, b, carry) ==
  IF a = <<>> THEN (IF carry = 0 THEN <<>> ELSE <<carry>>)
  ELSE LET t == a[Len(a)] + b[Len(b)] + carry
       IN  AddLimbs(SubSeq(a, 1, Len(a) - 1), SubSeq(b, 1, Len(b) - 1),
                    t \div LimbBase) \o <<t % LimbBase>>

\* the numeral of bits * k + carry
MulBits(bits, k, carry) == FromLimbs(MulLimbs(ToLimbs(bits), k, carry))

\* the numeral of a + b, for numerals of the same length
AddBits(a, b) == FromLimbs(AddLimbs(ToLimbs(a), ToLimbs(b), 0))

Zeros(n) == [i \in 1..n |-> 0]

\* round to nearest, ties to even, at 53 significant digits
RoundDouble(x) ==
  LET c == Canonical(x)
      n == Len(c.bits)
  IN  IF n <= MantissaBits THEN c
      ELSE LET keep == SubSeq(c.bits, 1, MantissaBits)
               rest == SubSeq(c.bits, MantissaBits + 1, n)
               more == \E i \in 2..Len(rest) : rest[i] = 1
               up   == rest[1] = 1 /\ (more \/ keep[MantissaBits] = 1)
           IN  Canonical([bits |-> MulBits(keep, 1, IF up THEN 1 ELSE 0),
                          e |-> c.e + Len(rest)])

\* the double of the natural number n
NumberOf(n) == Canonical([bits |-> IntBits(n), e |-> 0])

\* count / totalUsage
DivideDouble(count, totalUsage) ==
  RoundDouble([bits |-> IntBits(count \div totalUsage)
                          \o FracBits(count % totalUsage, totalUsage, FractionBits),
               e |-> 0 - (FractionBits + 1)])

\* x * k for a small natural number k
TimesDouble(x, k) == RoundDouble([bits |-> MulBits(x.bits, k, 0), e |-> x.e])

\* x + y
PlusDouble(x, y) ==
  LET e  == IF x.e < y.e THEN x.e ELSE y.e
      xb == x.bits \o Zeros(x.e - e)
      yb == y.bits \o Zeros(y.e - e)
      n  == IF Len(xb) < Len(yb) THEN Len(yb) ELSE Len(xb)
  IN  RoundDouble([bits |-> AddBits(Zeros(n - Len(xb)) \o xb,
                                    Zeros(n - Len(yb)) \o yb),
                   e |-> e])

\* (count / totalUsage) * 100
Percentage(count, totalUsage) == TimesDouble(DivideDouble(count, totalUsage), 100)

\* the entries of the array getModelUsageStats returns, one per key of the Map
getModelUsageStats(usage) ==
  LET totalUsage == SumCounts(usage, DOMAIN usage)
  IN  IF totalUsage = 0 THEN {}
      ELSE {[model |-> m, count |-> usage[m],
             percentage |-> Percentage(usage[m], totalUsage)] : m \in DOMAIN usage}

\* buildMessagesArray that puts the turn of userMessage first
buildMessagesArray_UserFirst(userMessage, conversationHistory) ==
  <<[role |-> "user", content |-> userMessage]>>
  \o [i \in 1..Len(conversationHistory) |->
        [role |-> conversationHistory[i].role, content |-> conversationHistory[i].content]]

\* lines 609-625; conversationHistory.map cannot throw on an array of turns,
\* so the catch branch (lines 621-624) is never taken
buildMessagesArray(userMessage, conversationHistory) ==
  [i \in 1..Len(conversationHistory) |->
     [role |-> conversationHistory[i].role, content |-> conversationHistory[i].content]]
  \o <<[role |-> "user", content |-> userMessage]>>

\* ------------------------------------------------------------------------
\* The selector
\* ------------------------------------------------------------------------

KeyPrefix == "sk-or-v1-"

MockAssistant == [kind |-> "mock", apiKey |-> ""]

OpenRouterAssistant(key) == [kind |-> "live", apiKey |-> key]

\* createAssistant that does not look at the format of config.apiKey
createAssistant_NoFormatCheck(forceMockFlag, isDemoFlag, configKey, envKey) ==
  IF forceMockFlag \/ isDemoFlag THEN MockAssistant
  ELSE IF configKey # "" THEN OpenRouterAssistant(configKey)
  ELSE IF envKey = "" THEN MockAssistant
  ELSE IF ~StartsWith(envKey, KeyPrefix) THEN MockAssistant
  ELSE OpenRouterAssistant(envKey)

\* configKey is config.apiKey and envKey is process.env.OPENROUTER_API_KEY,
\* "" when absent; the result is the instance constructed
createAssistant(forceMockFlag, isDemoFlag, configKey, envKey) ==
  IF forceMockFlag \/ isDemoFlag THEN MockAssistant
  ELSE IF configKey # ""
    THEN (IF ~StartsWith(configKey, KeyPrefix)
            THEN MockAssistant
            ELSE OpenRouterAssistant(configKey))
  ELSE IF envKey = "" THEN MockAssistant
  ELSE IF ~StartsWith(envKey, KeyPrefix) THEN MockAssistant
  ELSE OpenRouterAssistant(envKey)

\* the shapes of the config argument: a well-formed object, undefined, an
\* object whose apiKey is a truthy value that is not a string
ConfigShapes == {"ok", "undefined", "apiKeyNotString"}

\* what fails when createAssistant runs: nothing, reading DEMO_CONFIG (line
\* 835), logger.info (line 836), reading process.env where `process` is not
\* defined (line 853)
Faults == {"none", "flags", "logger", "env"}

\* the try block of createAssistant throws: a fault at the statement reached,
\* or a TypeError from `config.apiKey` on an undefined config (line 840) or
\* from `config.apiKey.startsWith` on a value that is not a string (line 842);
\* the flags are looked at first (line 835)
createAssistantThrows(shape, fault, forceMockFlag, isDemoFlag, configKey) ==
  \/ fault = "flags"
  \/ fault # "flags" /\ (forceMockFlag \/ isDemoFlag) /\ fault = "logger"
  \/ fault # "flags" /\ ~(forceMockFlag \/ isDemoFlag) /\ shape # "ok"
  \/ /\ ~(forceMockFlag \/ isDemoFlag)
     /\ shape = "ok"
     /\ configKey = ""
     /\ fault = "env"

\* the catch block of createAssistant that lets the error out
createAssistantCatch_Raise == [outcome |-> "raised", instance |-> MockAssistant]

\* the catch block of createAssistant (lines 873-877)
createAssistantCatch == [outcome |-> "returned", instance |-> MockAssistant]

\* one call of createAssistant (lines 832-878): how it ends and with what
createAssistantCall(shape, fault, forceMockFlag, isDemoFlag, configKey, envKey) ==
  IF createAssistantThrows(shape, fault, forceMockFlag, isDemoFlag, configKey)
    THEN createAssistantCatch
    ELSE [outcome |-> "returned",
          instance |-> createAssistant(forceMockFlag, isDemoFlag, configKey, envKey)]

\* ------------------------------------------------------------------------
\* The provider: what one fetch settles with
\* ------------------------------------------------------------------------

NoData == [choicesKind |-> "absent", choices |-> <<>>]

\* a response with a non-2xx status and the text of its body
HttpAnswer(tag, status, errorText) ==
  [tag |-> tag, t |-> "response", status |-> status, text |-> errorText,
   json |-> TRUE, data |-> NoData, error |-> Error("")]

\* a 200 response whose body is the JSON value data
OkAnswer(tag, data) ==
  [tag |-> tag, t |-> "response", status |-> 200, text |-> "",
   json |-> TRUE, data |-> data, error |-> Error("")]

\* a 200 response whose body is not JSON
NotJsonAnswer ==
  [tag |-> "okNotJson", t |-> "response", status |-> 200, text |-> "<html>",
   json |-> FALSE, data |-> NoData, error |-> Error("")]

\* fetch rejects before any status is received
RejectAnswer(tag, name, msg) ==
  [tag |-> tag, t |-> "reject", status |-> 0, text |-> "",
   json |-> FALSE, data |-> NoData, error |-> [name |-> name, message |-> msg]]

Completion(content) ==
  [choicesKind |-> "array",
   choices |-> <<[hasMessage |-> TRUE, content |-> content]>>]

ProviderAnswers ==
  { HttpAnswer("http401", 401, "{\"error\":\"No auth credentials found\"}"),
    HttpAnswer("http402", 402, "{\"error\":\"Payment required\"}"),
    HttpAnswer("http429", 429, "{\"error\":\"Slow down\"}"),
    HttpAnswer("http500", 500, "Internal Server Error"),
    HttpAnswer("http503", 503, "Service Unavailable"),
    HttpAnswer("http404", 404, "Not Found"),
    HttpAnswer("http400timeout", 400, "upstream timeout while reading request"),
    OkAnswer("okValid", Completion("Hello there!")),
    OkAnswer("okShort", Completion("Hi")),
    OkAnswer("okEmptyText", Completion("")),
    OkAnswer("okBlankText", Completion("  ")),
    OkAnswer("okNoChoices", NoData),
    OkAnswer("okChoicesNotArray", [choicesKind |-> "object", choices |-> <<>>]),
    OkAnswer("okEmptyChoices", [choicesKind |-> "array", choices |-> <<>>]),
    OkAnswer("okNoMessage",
             [choicesKind |-> "array",
              choices |-> <<[hasMessage |-> FALSE, content |-> ""]>>]),
    NotJsonAnswer,
    RejectAnswer("netFetchFailed", "TypeError", "fetch failed"),
    RejectAnswer("netNetworkError", "TypeError", "Network request failed") }

\* lines 704-742 for a response whose body has been read: the content that
\* fetchResponse's inner try returns or the error that it throws.
\* aborted: the caller's signal has fired (signal?.aborted)
ReadResponse(resp, aborted) ==
  IF ~(resp.status >= 200 /\ resp.status <= 299)
    THEN [ok |-> FALSE, content |-> "", error |-> HttpError(resp.status, resp.text)]
  ELSE IF ~resp.json
    THEN [ok |-> FALSE, content |-> "", error |-> JsonSyntaxError]
  ELSE IF resp.data.choicesKind # "array" \/ Len(resp.data.choices) = 0
    THEN [ok |-> FALSE, content |-> "", error |-> InvalidFormatError]
  ELSE IF ~resp.data.choices[1].hasMessage
    THEN [ok |-> FALSE, content |-> "", error |-> NoMessageTypeError]
  ELSE IF aborted
    THEN [ok |-> FALSE, content |-> "", error |-> CancelledError]
  ELSE [ok |-> TRUE, content |-> resp.data.choices[1].content, error |-> Error("")]

\* ------------------------------------------------------------------------
\* Inputs
\* ------------------------------------------------------------------------

ApiKeys == {"", "sk-or-v1-abc123", "sk-live-abc123"}

UserMessages == {"", "  ", "Hello"}

Histories ==
  { <<>>,
    << [id |-> "1", role |-> "user", content |-> "Hi"],
       [id |-> "2", role |-> "assistant", content |-> "Hello!"],
       [id |-> "3", role |-> "user", content |-> "Hi"] >> }

\* values of process.env.OPENROUTER_MODEL ("" when unset)
EnvModels == {"", "vendor/unlisted-model"}

\* the caller's AbortSignal: not supplied, supplied, supplied and already aborted
Signals == {"none", "active", "aborted"}

NoResult == [settled |-> "none", response |-> "", model |-> "", cost |-> 0]

NoAnswer == RejectAnswer("none", "", "")

CallIds == 1..MaxConcurrent

\* a call that has not been made yet
NewCall == [pc |-> "new", model |-> "", retryCount |-> 0, pending |-> NoAnswer,
            result |-> NoResult]

\* what the provider answers to the concurrent calls
ConcurrentAnswers ==
  {a \in ProviderAnswers :
     a.tag \in {"okValid", "okEmptyText", "http429", "netNetworkError"}}

\* ------------------------------------------------------------------------
\* How getResponse settles
\* ------------------------------------------------------------------------

Resolved(response, model, cost) ==
  [settled |-> "resolved", response |-> response, model |-> model, cost |-> cost]

Rejected(error) ==
  [settled |-> "rejected", response |-> error.message, model |-> "", cost |-> 0]

\* getResponseCatch that rethrows instead of returning the fallback result
getResponseCatch_Rethrow(error, demo) == Rejected(error)

\* the catch block of getResponse (lines 548-584)
getResponseCatch(error, demo) ==
  Resolved(errorMessage(error, demo), "error", 0)

\* getResponseTail that records the usage before it validates the content
getResponseTail_RecordFirst(content, model, usage, demo) ==
  IF IsBlank(content)
    THEN [result |-> getResponseCatch(EmptyResponseError, demo),
          usage |-> recordModelUsage(usage, model)]
    ELSE [result |-> Resolved(content, model, estimateCost(content, model)),
          usage |-> recordModelUsage(usage, model)]

\* getResponse after fetchResponse has returned content (lines 536-547):
\* the settled promise and the usage counter
getResponseTail(content, model, usage, demo) ==
  IF IsBlank(content)
    THEN [result |-> getResponseCatch(EmptyResponseError, demo), usage |-> usage]
    ELSE [result |-> Resolved(content, model, estimateCost(content, model)),
          usage |-> recordModelUsage(usage, model)]

\* ------------------------------------------------------------------------
\* MockAssistant (lines 881-976)
\* ------------------------------------------------------------------------

MockModel == "demo-assistant-v1"

\* cost: 0.001, in units of 1e-8 dollar
MockCost == 100000

\* the canned messages of getSmartMockResponse (their first sentence, without
\* the leading emoji)
DemoResponse == "Welcome to the chat app demo! This is a fully functional chat interface with mock AI responses."

ExportResponse == "The export feature lets you download your conversations in multiple formats:"

GreetingResponse == "Hello! I'm the demo assistant for this chat application."

DefaultResponses ==
  << "That's an interesting question! In a real deployment, this would be answered by advanced AI models like Claude or GPT-4.",
     "Great point! This mock assistant demonstrates the responsive chat interface.",
     "I appreciate your message! This demo showcases the chat app's clean interface and smooth user experience." >>

\* getSmartMockResponse (lines 882-924); r is Math.floor(Math.random() * 3) + 1
getSmartMockResponse(userMessage, r) ==
  LET message == ToLowerCase(userMessage)
  IN  IF Includes(message, "demo") \/ Includes(message, "showcase") THEN DemoResponse
      ELSE IF Includes(message, "export") \/ Includes(message, "download")
        THEN ExportResponse
      ELSE IF Includes(message, "hello") \/ Includes(message, "hi")
                \/ Includes(message, "hey")
        THEN GreetingResponse
      ELSE DefaultResponses[r]

\* MockResponses that leaves the message out of the responses
MockResponses_NoEcho(userMessage) ==
  << "I understand what you're asking about. This is a demo response.",
     "Thanks for your message. This mock assistant shows the chat interface working properly.",
     "I'm responding to show the chat flow is working correctly in demo mode.",
     "Got it! This is a placeholder response from the demo assistant.",
     "I see your message. The real version would connect to AI models for actual help!" >>

\* the responses array of MockAssistant.getResponse (lines 956-962)
MockResponses(userMessage) ==
  << "I understand you're asking about \"" \o userMessage
       \o "\". This is a demo response - in production, I'd provide a helpful answer!",
     "Thanks for your message: \"" \o userMessage
       \o "\". This mock assistant shows the chat interface working properly.",
     "You wrote: \"" \o userMessage
       \o "\" - I'm responding to show the chat flow is working correctly in demo mode.",
     "Got it! You said \"" \o userMessage
       \o "\". This is a placeholder response from the demo assistant.",
     "I see your message: \"" \o userMessage
       \o "\". The real version would connect to AI models for actual help!" >>

\* MockResult that reports the cost 0
MockResult_Free(userMessage, i) ==
  Resolved(MockResponses(userMessage)[i], MockModel, 0)

\* what MockAssistant.getResponse returns (lines 964-970); i is
\* Math.floor(Math.random() * responses.length) + 1
MockResult(userMessage, i) ==
  Resolved(MockResponses(userMessage)[i], MockModel, MockCost)

\* MockAssistant.getModelUsageStats (lines 973-975): the entries of the array
\* it returns, whatever calls the instance has served
MockGetModelUsageStats ==
  {[model |-> "mock", count |-> 1, percentage |-> NumberOf(100)]}

\* 500 + Math.random() * 1000, in ms
MockDelays == {500, 1499}

MockUserMessages == {"", "Hello", "How are you?", "Show me the DEMO"}

NoTimer == [state |-> "none", delay |-> 0]

\* ------------------------------------------------------------------------
\* State
\* ------------------------------------------------------------------------

VARIABLES
  forceMock,            \* DEMO_CONFIG.FORCE_MOCK_ASSISTANT
  isDemo,               \* DEMO_CONFIG.IS_DEMO
  hasWindow,            \* typeof window !== 'undefined'
  configShape,          \* the shape of the config argument of createAssistant
  createFault,          \* what fails while createAssistant runs
  cfgKey,               \* config.apiKey, until a Live Client holds its credential
  envApiKey,            \* process.env.OPENROUTER_API_KEY, until then
  assistant,            \* the class of the instance createAssistant returned
  apiKey,               \* OpenRouterAssistant.apiKey
  modelUsage,           \* OpenRouterAssistant.modelUsage
  nCalls,               \* getResponse calls that have returned
  successes,            \* per model, the successful results handed to callers
  pc,                   \* where the call in progress is suspended
  userMessage,
  conversationHistory,
  signal,               \* options.signal of the call
  envOpenRouterModel,   \* process.env.OPENROUTER_MODEL as the call read it ("" when unset)
  model,
  messages,
  retryCount,           \* retryCount of the running fetchResponse
  fetchCalls,           \* invocations of fetch made by the call
  requests,             \* the request bodies handed to fetch
  delays,               \* backoff delays started by the call (ms)
  timerArmed,           \* the 90 s timer of the attempt is pending
  timersStarted,        \* setTimeout(..., 90000) calls made by the call
  log,                  \* what ended each attempt of the call
  pending,              \* the response whose body is being read
  result,               \* the settled promise of the call
  calls,                \* the calls that run concurrently on the instance
  mockTimer             \* the timer of the simulated delay of MockAssistant

configVars == <<forceMock, isDemo, hasWindow, configShape, createFault, cfgKey,
                envApiKey,
                assistant, apiKey, calls>>

inputVars == <<userMessage, conversationHistory, envOpenRouterModel, model, messages>>

vars == <<forceMock, isDemo, hasWindow, configShape, createFault, cfgKey,
                envApiKey,
          assistant, apiKey, modelUsage, nCalls, successes, pc, userMessage, conversationHistory, signal, envOpenRouterModel, model, messages,
          retryCount, fetchCalls, requests, delays, timerArmed, timersStarted,
          log, pending, result, calls, mockTimer>>

demoMode == forceMock \/ isDemo

Init ==
  /\ forceMock \in BOOLEAN
  /\ isDemo \in BOOLEAN
  /\ hasWindow \in BOOLEAN
  /\ configShape \in ConfigShapes
  /\ createFault \in Faults
  /\ cfgKey \in (IF configShape = "ok" THEN ApiKeys ELSE {""})
  /\ envApiKey \in ApiKeys
  /\ assistant = "none"
  /\ apiKey = ""
  /\ modelUsage = <<>>
  /\ nCalls = 0
  /\ successes = <<>>
  /\ pc = "idle"
  /\ userMessage = ""
  /\ conversationHistory = <<>>
  /\ signal = "none"
  /\ envOpenRouterModel = ""
  /\ model = ""
  /\ messages = <<>>
  /\ retryCount = 0
  /\ fetchCalls = 0
  /\ requests = <<>>
  /\ delays = <<>>
  /\ timerArmed = FALSE
  /\ timersStarted = 0
  /\ log = <<>>
  /\ pending = NoAnswer
  /\ result = NoResult
  /\ calls = [c \in CallIds |-> NewCall]
  /\ mockTimer = NoTimer

\* ------------------------------------------------------------------------
\* Steps of fetchResponse shared by the actions
\* ------------------------------------------------------------------------

\* fetchResponse has returned content to getResponse (lines 534-547)
Complete(mdl, content) ==
  LET tail == getResponseTail(content, mdl, modelUsage, demoMode)
  IN  /\ pc' = "done"
      /\ result' = tail.result
      /\ modelUsage' = tail.usage

\* the outer catch of fetchResponse (lines 755-789) with the error it caught:
\* back off and retry, or rethrow into the catch block of getResponse
FetchCatch(rc, error) ==
  IF ShouldRetry(rc, error)
    THEN /\ pc' = "backoff"
         /\ delays' = Append(delays, BackoffDelay(rc))
         /\ UNCHANGED <<result, modelUsage>>
    ELSE /\ pc' = "done"
         /\ result' = getResponseCatch(error, demoMode)
         /\ UNCHANGED <<modelUsage, delays>>

\* AlreadyAborted that never looks at the signal
AlreadyAborted_Never(sig) == FALSE

\* `signal && signal.aborted` at the entry of fetchResponse (lines 670-680)
AlreadyAborted(sig) == sig = "aborted"

\* FetchEntry that arms the 90 s timer only when no signal was supplied
FetchEntry_TimerWithoutSignalOnly(rc, sig, mdl, msgs) ==
  /\ retryCount' = rc
  /\ IF hasWindow
       THEN /\ Complete(mdl, ClientFallbackResponse)
            /\ UNCHANGED <<timerArmed, timersStarted, fetchCalls, requests, delays>>
       ELSE /\ timersStarted' = timersStarted + (IF sig = "none" THEN 1 ELSE 0)
            /\ IF AlreadyAborted(sig)
                 THEN /\ timerArmed' = FALSE
                      /\ FetchCatch(rc, CancelledError)
                      /\ UNCHANGED <<fetchCalls, requests>>
                 ELSE /\ timerArmed' = (sig = "none")
                      /\ pc' = "fetching"
                      /\ fetchCalls' = fetchCalls + 1
                      /\ requests' = Append(requests, [model |-> mdl, messages |-> msgs])
                      /\ UNCHANGED <<result, modelUsage, delays>>

\* fetchResponse from its entry to the fetch call (lines 657-700)
FetchEntry(rc, sig, mdl, msgs) ==
  /\ retryCount' = rc
  /\ IF hasWindow
       THEN /\ Complete(mdl, ClientFallbackResponse)
            /\ UNCHANGED <<timerArmed, timersStarted, fetchCalls, requests, delays>>
       ELSE /\ timersStarted' = timersStarted + 1
            /\ IF AlreadyAborted(sig)
                 THEN /\ timerArmed' = FALSE
                      /\ FetchCatch(rc, CancelledError)
                      /\ UNCHANGED <<fetchCalls, requests>>
                 ELSE /\ timerArmed' = TRUE
                      /\ pc' = "fetching"
                      /\ fetchCalls' = fetchCalls + 1
                      /\ requests' = Append(requests, [model |-> mdl, messages |-> msgs])
                      /\ UNCHANGED <<result, modelUsage, delays>>

\* ------------------------------------------------------------------------
\* Actions
\* ------------------------------------------------------------------------

\* the application calls createAssistant once, at setup
CreateAssistant ==
  /\ assistant = "none"
  /\ LET r == createAssistantCall(configShape, createFault, forceMock, isDemo,
                                  cfgKey, envApiKey)
         live == r.outcome = "returned" /\ r.instance.kind = "live"
     IN  /\ assistant' = (IF r.outcome = "raised" THEN "raised" ELSE r.instance.kind)
         /\ apiKey' = r.instance.apiKey
         /\ cfgKey' = (IF live THEN "" ELSE cfgKey)
         /\ envApiKey' = (IF live THEN "" ELSE envApiKey)
         /\ createFault' = (IF live THEN "none" ELSE createFault)
  /\ UNCHANGED <<forceMock, isDemo, hasWindow, configShape, modelUsage, nCalls,
                 successes, pc, inputVars, signal, retryCount, fetchCalls, requests,
                 delays, timerArmed, timersStarted, log, pending, result, calls,
                 mockTimer>>

\* a caller invokes getResponse; the call runs to its first suspension
GetResponse(um, hist, sig, envModel) ==
  /\ assistant = "live"
  /\ pc = "idle"
  /\ nCalls < MaxCalls
  /\ userMessage' = um
  /\ conversationHistory' = hist
  /\ signal' = sig
  /\ log' = <<>>
  /\ pending' = NoAnswer
  /\ IF IsBlank(um)
       THEN /\ envOpenRouterModel' = ""
            /\ model' = ""
            /\ messages' = <<>>
            /\ pc' = "done"
            /\ result' = getResponseCatch(EmptyMessageError, demoMode)
            /\ UNCHANGED <<modelUsage, retryCount, fetchCalls, requests, delays,
                           timerArmed, timersStarted>>
       ELSE /\ envOpenRouterModel' = envModel
            /\ model' = selectModel(envModel)
            /\ messages' = buildMessagesArray(um, hist)
            /\ FetchEntry(0, sig, selectModel(envModel), buildMessagesArray(um, hist))
  /\ UNCHANGED <<configVars, mockTimer, nCalls, successes>>

\* the fetch promise settles: it rejects, or the response headers arrive
FetchSettles(a) ==
  /\ pc = "fetching"
  /\ log' = Append(log, a.tag)
  /\ timerArmed' = FALSE
  /\ IF a.t = "reject"
       THEN /\ FetchCatch(retryCount, InnerCatch(a.error))
            /\ UNCHANGED pending
       ELSE /\ pc' = "body"
            /\ pending' = a
            /\ UNCHANGED <<result, modelUsage, delays>>
  /\ UNCHANGED <<configVars, mockTimer, inputVars, nCalls, successes, signal, retryCount, fetchCalls,
                 requests, timersStarted>>

\* the body of the response has been read (response.text() / response.json());
\* after the caller's signal has fired the read may have been interrupted
BodyRead ==
  /\ pc = "body"
  /\ \E interrupted \in (IF signal = "aborted" THEN BOOLEAN ELSE {FALSE}) :
       LET r == IF interrupted
                  THEN [ok |-> FALSE, content |-> "", error |-> AbortError]
                  ELSE ReadResponse(pending, signal = "aborted")
       IN  IF r.ok
             THEN Complete(model, r.content) /\ UNCHANGED delays
             ELSE FetchCatch(retryCount, InnerCatch(r.error))
  /\ pending' = NoAnswer
  /\ UNCHANGED <<configVars, mockTimer, inputVars, nCalls, successes, signal, retryCount, fetchCalls,
                 requests, timerArmed, timersStarted, log>>

\* the 90 s timer fires while fetch is pending: controller.abort()
TimeoutFires ==
  /\ pc = "fetching"
  /\ timerArmed
  /\ timerArmed' = FALSE
  /\ log' = Append(log, "timeout")
  /\ FetchCatch(retryCount, InnerCatch(AbortError))
  /\ UNCHANGED <<configVars, mockTimer, inputVars, nCalls, successes, signal, retryCount, fetchCalls,
                 requests, timersStarted, pending>>

\* the caller aborts its signal while the call is in progress
SignalAbort ==
  /\ signal = "active"
  /\ pc \in {"fetching", "body", "backoff"}
  /\ signal' = "aborted"
  /\ IF pc = "fetching"
       THEN /\ timerArmed' = FALSE
            /\ log' = Append(log, "abort")
            /\ FetchCatch(retryCount, InnerCatch(AbortError))
       ELSE UNCHANGED <<pc, result, modelUsage, delays, timerArmed, log>>
  /\ UNCHANGED <<configVars, mockTimer, inputVars, nCalls, successes, retryCount, fetchCalls, requests,
                 timersStarted, pending>>

\* BackoffElapses that retries with the last turn only
BackoffElapses_LastTurnOnly ==
  /\ pc = "backoff"
  /\ FetchEntry(retryCount + 1, signal, model, <<messages[Len(messages)]>>)
  /\ UNCHANGED <<configVars, mockTimer, inputVars, nCalls, successes, signal, log, pending>>

\* the backoff delay has elapsed: fetchResponse calls itself with retryCount + 1
BackoffElapses ==
  /\ pc = "backoff"
  /\ FetchEntry(retryCount + 1, signal, model, messages)
  /\ UNCHANGED <<configVars, mockTimer, inputVars, nCalls, successes, signal, log, pending>>

\* the caller has received the result of the call
Returns ==
  /\ pc = "done"
  /\ pc' = "idle"
  /\ nCalls' = nCalls + 1
  /\ successes' = (IF result.settled = "resolved" /\ result.model # "error"
                    THEN recordModelUsage(successes, result.model)
                    ELSE successes)
  /\ userMessage' = ""
  /\ conversationHistory' = <<>>
  /\ signal' = "none"
  /\ envOpenRouterModel' = ""
  /\ model' = ""
  /\ messages' = <<>>
  /\ retryCount' = 0
  /\ fetchCalls' = 0
  /\ requests' = <<>>
  /\ delays' = <<>>
  /\ timersStarted' = 0
  /\ log' = <<>>
  /\ result' = NoResult
  /\ mockTimer' = NoTimer
  /\ UNCHANGED <<configVars, modelUsage, timerArmed, pending>>

\* UNCHANGED for what a call on the MockAssistant never touches
liveVars == <<envOpenRouterModel, model, messages, retryCount, fetchCalls, requests, delays, timerArmed,
              timersStarted, log, pending, modelUsage>>

\* MockAssistant.getResponse up to its await (lines 931-953)
MockStart(sig, d) ==
  IF sig = "aborted"
    THEN /\ pc' = "done"
         /\ mockTimer' = NoTimer
         /\ result' = Rejected(CancelledError)
    ELSE /\ pc' = "delay"
         /\ mockTimer' = [state |-> "pending", delay |-> d]
         /\ result' = NoResult

\* a caller invokes getResponse of the MockAssistant; the arguments and faults
\* of createAssistant are history once the instance is in use
MockGetResponse(um, hist, sig, d) ==
  /\ assistant = "mock"
  /\ pc = "idle"
  /\ nCalls < MaxCalls
  /\ userMessage' = um
  /\ conversationHistory' = hist
  /\ signal' = sig
  /\ MockStart(sig, d)
  /\ configShape' = "ok"
  /\ createFault' = "none"
  /\ cfgKey' = ""
  /\ envApiKey' = ""
  /\ UNCHANGED <<forceMock, isDemo, hasWindow, assistant, apiKey, calls, nCalls,
                 successes, liveVars>>

\* the simulated delay has elapsed (lines 936-937, 955-970)
MockDelayElapses(i) ==
  /\ pc = "delay"
  /\ mockTimer.state = "pending"
  /\ mockTimer' = [mockTimer EXCEPT !.state = "fired"]
  /\ pc' = "done"
  /\ result' = MockResult(userMessage, i)
  /\ UNCHANGED <<configVars, nCalls, successes, userMessage, conversationHistory,
                 signal, liveVars>>

\* MockAbort that lets the delay run on
MockAbort_WaitsOut ==
  /\ UNCHANGED <<pc, mockTimer, result>>

\* the abort listener of the simulated delay (lines 940-943)
MockAbort ==
  /\ mockTimer' = [mockTimer EXCEPT !.state = "cleared"]
  /\ pc' = "done"
  /\ result' = Rejected(CancelledError)

\* the caller aborts its signal while the simulated delay is pending
MockSignalAbort ==
  /\ pc = "delay"
  /\ signal = "active"
  /\ signal' = "aborted"
  /\ MockAbort
  /\ UNCHANGED <<configVars, nCalls, successes, userMessage, conversationHistory,
                 liveVars>>

Next ==
  \/ CreateAssistant
  \/ \E um \in UserMessages, hist \in Histories, sig \in Signals, envModel \in EnvModels :
       GetResponse(um, hist, sig, envModel)
  \/ \E a \in ProviderAnswers : FetchSettles(a)
  \/ BodyRead
  \/ TimeoutFires
  \/ SignalAbort
  \/ BackoffElapses
  \/ Returns
  \/ \E um \in MockUserMessages, hist \in Histories, sig \in Signals, d \in MockDelays :
       MockGetResponse(um, hist, sig, d)
  \/ \E i \in 1..Len(MockResponses("")) : MockDelayElapses(i)
  \/ MockSignalAbort

Spec == Init /\ [][Next]_vars

\* ------------------------------------------------------------------------
\* Concurrent calls on one instance.  A call runs without interruption from
\* one await to the next; the calls share modelUsage only.
\* ------------------------------------------------------------------------

seqVars == <<nCalls, successes, pc, userMessage, conversationHistory, signal,
             envOpenRouterModel, model,
             messages, retryCount, fetchCalls, requests, delays, timerArmed,
             timersStarted, log, pending, result, mockTimer>>

\* the instance createAssistant built from a valid credential, no call made
InitConcurrent ==
  /\ forceMock = FALSE
  /\ isDemo = FALSE
  /\ hasWindow \in BOOLEAN
  /\ configShape = "ok"
  /\ createFault = "none"
  /\ cfgKey = ""
  /\ envApiKey = ""
  /\ assistant = "live"
  /\ apiKey \in {k \in ApiKeys : StartsWith(k, KeyPrefix)}
  /\ modelUsage = <<>>
  /\ nCalls = 0
  /\ successes = <<>>
  /\ pc = "idle"
  /\ userMessage = ""
  /\ conversationHistory = <<>>
  /\ signal = "none"
  /\ envOpenRouterModel = ""
  /\ model = ""
  /\ messages = <<>>
  /\ retryCount = 0
  /\ fetchCalls = 0
  /\ requests = <<>>
  /\ delays = <<>>
  /\ timerArmed = FALSE
  /\ timersStarted = 0
  /\ log = <<>>
  /\ pending = NoAnswer
  /\ result = NoResult
  /\ calls = [c \in CallIds |-> NewCall]
  /\ mockTimer = NoTimer

\* fetchResponse has returned content to getResponse (lines 534-547)
CallComplete(c, content) ==
  LET tail == getResponseTail(content, calls[c].model, modelUsage, demoMode)
  IN  /\ calls' = [calls EXCEPT ![c].pc = "done", ![c].result = tail.result,
                                ![c].pending = NoAnswer]
      /\ modelUsage' = tail.usage

\* the outer catch of fetchResponse (lines 755-789)
CallFetchCatch(c, error) ==
  /\ calls' = IF ShouldRetry(calls[c].retryCount, error)
                THEN [calls EXCEPT ![c].pc = "backoff", ![c].pending = NoAnswer]
                ELSE [calls EXCEPT ![c].pc = "done", ![c].pending = NoAnswer,
                                   ![c].result = getResponseCatch(error, demoMode)]
  /\ UNCHANGED modelUsage

\* getResponse is called: it runs to the await of fetch (lines 521-535, 657-700)
CallStarts(c, um, envModel) ==
  /\ calls[c].pc = "new"
  /\ IF IsBlank(um)
       THEN /\ calls' = [calls EXCEPT ![c].pc = "done",
                           ![c].result = getResponseCatch(EmptyMessageError, demoMode)]
            /\ UNCHANGED modelUsage
       ELSE IF hasWindow
         THEN LET tail == getResponseTail(ClientFallbackResponse, selectModel(envModel),
                                          modelUsage, demoMode)
              IN  /\ calls' = [calls EXCEPT ![c].pc = "done",
                                            ![c].model = selectModel(envModel),
                                            ![c].result = tail.result]
                  /\ modelUsage' = tail.usage
         ELSE /\ calls' = [calls EXCEPT ![c].pc = "fetching",
                                        ![c].model = selectModel(envModel)]
              /\ UNCHANGED modelUsage
  /\ UNCHANGED <<forceMock, isDemo, hasWindow, configShape, createFault, cfgKey,
                envApiKey,
                 assistant, apiKey, seqVars>>

\* the fetch promise of call c settles
CallFetchSettles(c, a) ==
  /\ calls[c].pc = "fetching"
  /\ IF a.t = "reject"
       THEN CallFetchCatch(c, InnerCatch(a.error))
       ELSE /\ calls' = [calls EXCEPT ![c].pc = "body", ![c].pending = a]
            /\ UNCHANGED modelUsage
  /\ UNCHANGED <<forceMock, isDemo, hasWindow, configShape, createFault, cfgKey,
                envApiKey,
                 assistant, apiKey, seqVars>>

\* the body of the response to call c has been read
CallBodyRead(c) ==
  /\ calls[c].pc = "body"
  /\ LET r == ReadResponse(calls[c].pending, FALSE)
     IN  IF r.ok THEN CallComplete(c, r.content)
                 ELSE CallFetchCatch(c, InnerCatch(r.error))
  /\ UNCHANGED <<forceMock, isDemo, hasWindow, configShape, createFault, cfgKey,
                envApiKey,
                 assistant, apiKey, seqVars>>

\* the 90 s timer of call c fires while its fetch is pending
CallTimeoutFires(c) ==
  /\ calls[c].pc = "fetching"
  /\ CallFetchCatch(c, InnerCatch(AbortError))
  /\ UNCHANGED <<forceMock, isDemo, hasWindow, configShape, createFault, cfgKey,
                envApiKey,
                 assistant, apiKey, seqVars>>

\* the backoff delay of call c has elapsed: it fetches again
CallBackoffElapses(c) ==
  /\ calls[c].pc = "backoff"
  /\ calls' = [calls EXCEPT ![c].pc = "fetching",
                            ![c].retryCount = calls[c].retryCount + 1]
  /\ UNCHANGED <<forceMock, isDemo, hasWindow, configShape, createFault, cfgKey,
                envApiKey,
                 assistant, apiKey, modelUsage, seqVars>>

NextConcurrent ==
  \/ \E c \in CallIds, um \in {"", "Hello"}, envModel \in EnvModels :
       CallStarts(c, um, envModel)
  \/ \E c \in CallIds, a \in ConcurrentAnswers : CallFetchSettles(c, a)
  \/ \E c \in CallIds : CallBodyRead(c)
  \/ \E c \in CallIds : CallTimeoutFires(c)
  \/ \E c \in CallIds : CallBackoffElapses(c)

SpecConcurrent == InitConcurrent /\ [][NextConcurrent]_vars

\* ------------------------------------------------------------------------
\* The calls on a Live Client under the guarantees of the JavaScript runtime:
\* an armed timer fires and a backoff delay elapses.  Nothing makes the
\* provider answer or finish a body, and nothing makes a caller call, abort
\* or collect a result.
\* ------------------------------------------------------------------------

LiveNext ==
  \/ \E um \in UserMessages, hist \in Histories, sig \in Signals, envModel \in EnvModels :
       GetResponse(um, hist, sig, envModel)
  \/ \E a \in ProviderAnswers : FetchSettles(a)
  \/ BodyRead
  \/ TimeoutFires
  \/ SignalAbort
  \/ BackoffElapses
  \/ Returns

\* what TimeoutFires does to pc and timerArmed: the 90 s timer expires, the
\* pending fetch is aborted and the attempt ends in the outer catch
TimerExpires ==
  /\ pc = "fetching"
  /\ timerArmed
  /\ timerArmed' = FALSE
  /\ pc' \in {"backoff", "done"}

\* what BackoffElapses does to pc: the back-off timer expires and
\* fetchResponse is entered again
BackoffExpires ==
  /\ pc = "backoff"
  /\ pc' \in {"fetching", "done"}

\* what BodyRead does to pc once the caller's signal has fired: the abort of
\* the controller ends the read of the body (lines 671-673)
BodyAborted ==
  /\ pc = "body"
  /\ signal = "aborted"
  /\ pc' \in {"backoff", "done"}

\* a call on the Live Client with the timers of the runtime: a timer that stays
\* armed expires, and a read that has been aborted ends.  The provider and the
\* caller owe nothing: no fairness on FetchSettles, SignalAbort or the BodyRead
\* of a call that has not been aborted.  TimerExpires is enabled exactly when
\* TimeoutFires is and every step that ends the wait of an armed timer is a
\* TimerExpires step or disables it, so the condition is that of
\* WF_vars(TimeoutFires); the same holds for BackoffExpires and BackoffElapses.
FairSpec ==
  /\ InitConcurrent
  /\ [][LiveNext]_vars
  /\ WF_<<pc, timerArmed>>(TimerExpires)
  /\ WF_pc(BackoffExpires)
  /\ WF_pc(BodyAborted)

\* ------------------------------------------------------------------------
\* The calls on a Live Client whose OPENROUTER_MODEL is any string: unset, a
\* model of the cost table, a model the table does not list, and a name that
\* is no model at all.  The provider answers as it likes.
\* ------------------------------------------------------------------------

CostEnvModels ==
  {"", "anthropic/claude-3-opus", "vendor/unlisted-model", "constructor"}

\* the answers of the provider that matter to the cost: completions of 12 and
\* of 2 characters, an empty completion and a failure that is retried
CostAnswers ==
  {a \in ProviderAnswers : a.tag \in {"okValid", "okShort", "okEmptyText", "http429"}}

CostNext ==
  \/ \E sig \in Signals, envModel \in CostEnvModels :
       GetResponse("Hello", <<>>, sig, envModel)
  \/ \E a \in CostAnswers : FetchSettles(a)
  \/ BodyRead
  \/ TimeoutFires
  \/ SignalAbort
  \/ BackoffElapses
  \/ Returns

CostSpec == InitConcurrent /\ [][CostNext]_vars

TypeOK ==
  /\ assistant \in {"none", "live", "mock", "raised"}
  /\ pc \in {"idle", "fetching", "body", "backoff", "delay", "done"}
  /\ mockTimer.state \in {"none", "pending", "fired", "cleared"}
  /\ retryCount \in 0..maxRetries
  /\ nCalls \in 0..MaxCalls
  /\ signal \in Signals
  /\ envOpenRouterModel \in EnvModels \cup CostEnvModels
  /\ timerArmed \in BOOLEAN
  /\ result.settled \in {"none", "resolved", "rejected"}

\* ------------------------------------------------------------------------
\* Properties
\* ------------------------------------------------------------------------

Last(seq) == seq[Len(seq)]

IsPrefix(p, q) == Len(p) <= Len(q) /\ SubSeq(q, 1, Len(p)) = p

\* the caller's signal has fired (before or during the call)
Cancelled == signal = "aborted"

C2_AtMostThreeFetches ==
  /\ fetchCalls <= 3
  /\ Len(requests) = fetchCalls

\* a call that used both retries
C2_Witness == fetchCalls = 3 /\ pc = "done"

ScriptC3 == <<"http500", "http500", "okValid">>

\* C3: with a provider that answers 500, 500 and then a valid completion, an
\* uncancelled call ends only after the third answer, with a successful
\* result, the usage counter incremented, 3 fetches and backoffs of 1 s, 2 s.
C3_SucceedsAfterTwo500 ==
  (pc = "done" /\ ~Cancelled /\ log # <<>> /\ IsPrefix(log, ScriptC3)) =>
     /\ log = ScriptC3
     /\ result.settled = "resolved"
     /\ result.model # "error"
     /\ model \in DOMAIN modelUsage
     /\ fetchCalls = 3
     /\ delays = <<1000, 2000>>

\* C4: (a) when the k-th attempt (k = 1, 2) fails with 429 the call starts a
\* backoff of 2^(k-1) seconds, and after the third it settles with no further
\* delay; (b) when a backoff has elapsed and the caller has not cancelled,
\* fetch is invoked again; (c) a backoff is started only by the failure of an
\* attempt with retries remaining, never after a terminal answer.
TerminalAnswers ==
  {"http401", "http402", "okNoChoices", "okChoicesNotArray", "okEmptyChoices",
   "okEmptyText", "okBlankText", "okNoMessage", "okValid", "okShort", "abort"}

C5_UnauthorizedIsTerminal ==
  /\ (pc = "done" /\ ~Cancelled /\ log # <<>> /\ log[1] = "http401") =>
       /\ fetchCalls = 1
       /\ delays = <<>>
       /\ result = Resolved(ConfigMessage, "error", 0)
  /\ (pc = "backoff") => Last(log) # "http401"

C5_Witness ==
  /\ pc = "done"
  /\ log = <<"http401">>
  /\ result.response = ConfigMessage

\* C6: 402 and a malformed success body (no choices array, empty choices
\* array, first choice with empty text) are terminal: such an answer is the
\* last one of its call, no backoff follows it, and when it answers the first
\* attempt fetch is invoked exactly once.
MalformedOr402 == {"http402", "okNoChoices", "okEmptyChoices", "okEmptyText"}

C6_TerminalFailures ==
  \A i \in 1..Len(log) :
     log[i] \in MalformedOr402 =>
       /\ i = Len(log)
       /\ pc \in {"body", "done"}
       /\ fetchCalls = i
       /\ Len(delays) = i - 1

C6_Witness ==
  /\ pc = "done"
  /\ log = <<"okEmptyText">>
  /\ fetchCalls = 1
  /\ result.model = "error"

\* C7: when the internal timeout aborts an attempt of an uncancelled call and
\* fewer than 2 retries have been used, the call backs off and fetches again:
\* a call can end on a timeout only at its third attempt.
C7_TimeoutIsRetried ==
  (pc = "done" /\ ~Cancelled /\ log # <<>> /\ Last(log) = "timeout") =>
     fetchCalls = 3

\* C8: when fetch rejects with a network-level error and fewer than 2 retries
\* have been used, the call backs off and fetches again: an uncancelled call
\* can end on a network failure only at its third attempt.
NetworkFailures == {"netFetchFailed", "netNetworkError"}

C8_NetworkFailureIsRetried ==
  (pc = "done" /\ ~Cancelled /\ log # <<>> /\ Last(log) \in NetworkFailures) =>
     fetchCalls = 3

\* C9: a call made with an already cancelled signal never invokes fetch and
\* leaves the usage counter unchanged.
C9_PreCancelledNoFetchNoUsage ==
  [][ (pc = "idle" /\ pc' # "idle" /\ signal' = "aborted") =>
        /\ pc' = "done"
        /\ fetchCalls' = 0
        /\ modelUsage' = modelUsage
    ]_vars

\* C10: once the caller's signal has fired, the call starts no further fetch.
C10_NoFetchAfterCancel ==
  [][ signal' = "aborted" =>
        /\ fetchCalls' <= fetchCalls
        /\ Len(requests') <= Len(requests)
    ]_vars

\* the signal fired after a rate-limited first attempt; no second fetch
C10_Witness ==
  /\ pc = "done"
  /\ Cancelled
  /\ log = <<"http429">>
  /\ delays = <<1000>>
  /\ fetchCalls = 1

\* C11: when the caller's signal fires during a backoff delay, the call
\* produces its outcome at once, without waiting for the rest of the delay.
C11_CancelEndsBackoffAtOnce ==
  [][ (pc = "backoff" /\ signal = "active" /\ signal' = "aborted") =>
        pc' = "done"
    ]_vars

\* the call has ended for a cancellation: the signal was already aborted at
\* the entry of an attempt (before the first one or after a backoff), or it
\* fired while fetch was pending
EndedByCancellation ==
  /\ pc = "done"
  /\ Cancelled
  /\ ~hasWindow
  /\ Trim(userMessage) # ""
  /\ \/ log = <<>>
     \/ Last(log) = "abort"
     \/ Len(delays) = Len(log)

\* the result of a provider failure that has no message of its own
GenericFailure == Resolved(GenericMessage, "error", 0)

\* C12: a call ended by the caller's cancellation settles with an outcome
\* that differs from the generic-message result of a provider failure.
C12_CancelledIsDistinct ==
  EndedByCancellation => result # GenericFailure

\* C13: a call with an empty or whitespace-only userMessage settles in the
\* step that starts it, having invoked fetch 0 times, started no 90 s timer
\* and no backoff delay, and leaving the usage counter as it was.
C13_BlankMessageNoActivity ==
  [][ (assistant = "live" /\ pc = "idle" /\ pc' # "idle" /\ Trim(userMessage') = "") =>
        /\ pc' = "done"
        /\ fetchCalls' = 0
        /\ requests' = <<>>
        /\ timersStarted' = 0
        /\ ~timerArmed'
        /\ delays' = <<>>
        /\ modelUsage' = modelUsage
    ]_vars

\* a whitespace-only message after an earlier successful call
C13_Witness ==
  /\ pc = "done"
  /\ userMessage = "  "
  /\ fetchCalls = 0
  /\ modelUsage # <<>>

\* C14: the outcome of a call with an empty or whitespace-only userMessage
\* differs from the result of a provider-side failure.
C14_InvalidInputIsDistinct ==
  (pc = "done" /\ Trim(userMessage) = "") => result # GenericFailure

CannedMessages ==
  {GenericMessage, TimeoutMessage, RateLimitMessage, ConfigMessage, QuotaMessage,
   NetworkMessage, DemoMessage}

\* the models a successful result can name
LiveModels == {selectModel(e) : e \in EnvModels}

\* the provider's answers that carry a usable completion
ValidAnswers == {"okValid", "okShort"}

\* C15: a call that has failed (its result names no live model) has model
\* 'error', cost 0 and one of the canned messages as its response; a call
\* whose last attempt did not end with a valid completion has failed.
C15_FailureIsCanned ==
  /\ (assistant = "live" /\ pc = "done" /\ result.model \notin LiveModels) =>
       /\ result.settled = "resolved"
       /\ result.model = "error"
       /\ result.cost = 0
       /\ result.response \in CannedMessages
  /\ (pc = "done" /\ log # <<>> /\ Last(log) \notin ValidAnswers) =>
       result.model = "error"

\* a 404 whose body text went into the thrown error but not into the result
C15_Witness ==
  /\ pc = "done"
  /\ log = <<"http404">>
  /\ result.response = GenericMessage

\* the count a usage map holds for model m (0 when it has no entry)
Count(usage, m) == IF m \in DOMAIN usage THEN usage[m] ELSE 0

\* the calls on the instance that have settled with a successful result for
\* model m: those handed to their callers and the one that has just settled
SuccessfulCalls(m) ==
  Count(successes, m) +
    (IF pc = "done" /\ result.settled = "resolved" /\ result.model = m /\ m # "error"
       THEN 1 ELSE 0)

UsageMatchesSuccesses ==
  /\ DOMAIN modelUsage \subseteq LiveModels
  /\ \A m \in LiveModels : Count(modelUsage, m) = SuccessfulCalls(m)
  /\ (assistant = "none") => modelUsage = <<>>

\* a step changes the counter only by settling a call successfully, and then
\* adds exactly 1 to the model of the result
UsageStep ==
  /\ \A m \in LiveModels : Count(modelUsage', m) >= Count(modelUsage, m)
  /\ (modelUsage' # modelUsage) =>
       /\ pc # "done"
       /\ pc' = "done"
       /\ result'.settled = "resolved"
       /\ result'.model \in LiveModels
       /\ \A m \in LiveModels :
            Count(modelUsage', m) =
              Count(modelUsage, m) + (IF m = result'.model THEN 1 ELSE 0)
  /\ (pc # "done" /\ pc' = "done" /\ result'.model = "error") =>
       modelUsage' = modelUsage

\* C16: in every state and for every model m the usage counter of m is the
\* number of calls on the instance that returned a successful result for m;
\* the counter starts empty, a successful completion adds exactly 1, a failed,
\* cancelled or invalid-input call leaves it unchanged, it never decreases.
C16_CounterCountsSuccesses ==
  []UsageMatchesSuccesses /\ [][UsageStep]_vars

\* two successes and one failure on the default model
C16_Witness ==
  /\ pc = "idle"
  /\ nCalls = 3
  /\ modelUsage = [m \in {DefaultModel} |-> 2]

RECURSIVE SumPercentages(_)
\* entries.reduce((sum, e) => sum + e.percentage, 0); with at most two entries
\* the order of the additions does not change the sum
SumPercentages(entries) ==
  IF entries = {} THEN [bits |-> <<>>, e |-> 0]
  ELSE LET e == CHOOSE x \in entries : TRUE
       IN  PlusDouble(SumPercentages(entries \ {e}), e.percentage)

\* the statistics have no entry iff no completion has succeeded; otherwise one
\* entry per model that has succeeded, with its count
StatisticsCountSuccesses ==
  LET stats == getModelUsageStats(modelUsage)
      total == SumCounts([m \in LiveModels |-> SuccessfulCalls(m)], LiveModels)
  IN  /\ (stats = {}) <=> (total = 0)
      /\ \A e \in stats :
           /\ e.model \in LiveModels
           /\ e.count >= 1
           /\ e.count = SuccessfulCalls(e.model)
           /\ e.percentage = Percentage(e.count, total)
      /\ \A m \in LiveModels :
           SuccessfulCalls(m) > 0 =>
             Cardinality({e \in stats : e.model = m}) = 1

\* C17: getModelUsageStats returns no entry iff no completion has succeeded on
\* the instance; otherwise exactly one entry per model that has succeeded,
\* with count >= 1 equal to that model's successes and percentage equal to
\* count / total * 100, and the percentages sum to 100.
C17_UsageStatistics ==
  LET stats == getModelUsageStats(modelUsage)
  IN  /\ StatisticsCountSuccesses
      /\ (stats # {}) => SumPercentages(stats) = NumberOf(100)

\* three successful completions split 2-and-1 over two models
C17_Witness ==
  /\ pc = "idle"
  /\ {[model |-> e.model, count |-> e.count] : e \in getModelUsageStats(modelUsage)}
       = {[model |-> DefaultModel, count |-> 2],
          [model |-> "vendor/unlisted-model", count |-> 1]}

\* the concurrent calls that have returned a successful result for model m
ConcurrentSuccesses(m) ==
  {c \in CallIds : /\ calls[c].pc = "done"
                   /\ calls[c].result.settled = "resolved"
                   /\ calls[c].result.model = m}

AllFinished == \A c \in CallIds : calls[c].pc = "done"

\* C18: whatever the interleaving of the concurrent calls on one instance, no
\* increment of the usage counter is lost: the count of every model is the
\* number of calls that have returned a successful result for it, and once all
\* calls have finished the sum of the counts is the number of successful calls.
C18_NoLostIncrement ==
  /\ DOMAIN modelUsage \subseteq LiveModels
  /\ \A m \in LiveModels :
       Count(modelUsage, m) = Cardinality(ConcurrentSuccesses(m))
  /\ AllFinished =>
       SumCounts(modelUsage, DOMAIN modelUsage) =
         Cardinality({c \in CallIds : calls[c].pc = "done"
                                      /\ calls[c].result.model # "error"})

\* two calls have succeeded for the same model, one of them after a backoff
\* during which the other one ran
C18_Witness ==
  /\ AllFinished
  /\ ~hasWindow
  /\ \E c, d \in CallIds :
       /\ c # d
       /\ calls[c].result.model = DefaultModel
       /\ calls[d].result.model = DefaultModel
       /\ calls[c].retryCount > 0
  /\ Count(modelUsage, DefaultModel) = 2

\* createAssistant returns in this step
Created == assistant = "none" /\ assistant' # "none"

\* no statement of createAssistant fails in this step
NoInternalError ==
  ~createAssistantThrows(configShape, createFault, forceMock, isDemo, cfgKey)

\* C19: createAssistant decides in this order: a demo/force-mock flag gives
\* the Local Substitute whatever the credentials; otherwise a non-empty
\* explicit credential alone decides (Live Client iff it starts with
\* 'sk-or-v1-', also when the environment holds a valid one); otherwise the
\* environment credential decides.  A Live Client always holds a credential of
\* valid prefix, and no credential with no flag gives what a flag gives.
C19_SelectionOrder ==
  /\ [](assistant = "live" => StartsWith(apiKey, "sk-or-v1-"))
  /\ [][ (Created /\ NoInternalError) =>
           /\ assistant' \in {"live", "mock"}
           /\ (forceMock \/ isDemo) => assistant' = "mock"
           /\ (~(forceMock \/ isDemo) /\ cfgKey # "") =>
                /\ (assistant' = "live") <=> StartsWith(cfgKey, "sk-or-v1-")
                /\ (assistant' = "live") => apiKey' = cfgKey
           /\ (~(forceMock \/ isDemo) /\ cfgKey = "") =>
                /\ (assistant' = "live") <=> StartsWith(envApiKey, "sk-or-v1-")
                /\ (assistant' = "live") => apiKey' = envApiKey
           /\ (~(forceMock \/ isDemo) /\ cfgKey = "" /\ envApiKey = "") =>
                assistant' = "mock" ]_vars

\* an explicit credential of wrong prefix has given the Local Substitute
\* although the environment holds a valid credential
C19_Witness ==
  /\ assistant = "mock"
  /\ ~forceMock /\ ~isDemo
  /\ configShape = "ok" /\ createFault = "none"
  /\ cfgKey = "sk-live-abc123"
  /\ envApiKey = "sk-or-v1-abc123"

\* C20: createAssistant never raises: whatever the configuration and whatever
\* fails while it reads the flags, the config argument or the environment, it
\* returns an instance, the Local Substitute when something has failed.
C20_NeverRaises ==
  /\ [](assistant # "raised")
  /\ [][ Created =>
           /\ assistant' \in {"live", "mock"}
           /\ ~NoInternalError => assistant' = "mock" ]_vars

\* reading the environment has failed and the Local Substitute was returned
C20_Witness ==
  /\ assistant = "mock"
  /\ ~forceMock /\ ~isDemo
  /\ configShape = "ok"
  /\ cfgKey = ""
  /\ createFault = "env"

\* C21: while the fetch of an attempt is pending the 90 s timer is armed,
\* whether or not the caller supplied a signal; the attempt ends in the very
\* step in which the timer or the caller's signal fires, whichever is first,
\* and nothing ends an attempt twice.
C21_TimeoutOrSignalAborts ==
  /\ [](pc = "fetching" => timerArmed)
  /\ [](Len(log) = fetchCalls - (IF pc = "fetching" THEN 1 ELSE 0))
  /\ [][ (pc = "fetching" /\ signal = "active" /\ signal' = "aborted") =>
           /\ pc' # "fetching"
           /\ ~timerArmed'
           /\ log' = Append(log, "abort") ]_vars
  /\ [][ (pc = "fetching" /\ log' = Append(log, "timeout")) =>
           /\ pc' # "fetching"
           /\ ~timerArmed'
           /\ signal' = signal ]_vars

\* without a caller signal, the timer has ended the second attempt of a call
C21_Witness ==
  /\ signal = "none"
  /\ log = <<"http429", "timeout">>
  /\ timersStarted = 2

\* the live path of the call has failed with its retries exhausted
RetriesExhausted ==
  /\ assistant = "live"
  /\ pc = "done"
  /\ Len(log) = maxRetries + 1
  /\ Last(log) \notin ValidAnswers

\* C22: when the Live Client has failed with its retries exhausted, the Local
\* Substitute answers before any error result is returned: a call that was
\* not cancelled (the only way the Local Substitute fails) ends with a result
\* of the Local Substitute, not with one of model 'error'.
C22_FallbackBeforeError ==
  (RetriesExhausted /\ ~Cancelled) =>
    /\ result.model # "error"
    /\ \E i \in 1..Len(MockResponses(userMessage)) : result = MockResult(userMessage, i)

\* the call on the MockAssistant has ended with the Cancelled outcome: the
\* promise is rejected with 'Request was cancelled' and carries no result
MockCancelled(res) ==
  /\ res.settled = "rejected"
  /\ res.response = "Request was cancelled"

\* C23: when the caller's signal fires while the simulated delay of the Local
\* Substitute is pending, the call ends in that step with the Cancelled
\* outcome, the delay timer is cleared and no result is produced; when the
\* signal has fired before the call starts, no delay is started.
C23_MockCancellation ==
  /\ [][ (assistant = "mock" /\ pc = "delay" /\ signal = "active" /\ signal' = "aborted") =>
           /\ pc' = "done"
           /\ MockCancelled(result')
           /\ mockTimer'.state = "cleared" ]_vars
  /\ [][ (assistant = "mock" /\ pc = "idle" /\ pc' # "idle" /\ signal' = "aborted") =>
           /\ pc' = "done"
           /\ MockCancelled(result')
           /\ mockTimer' = NoTimer ]_vars
  /\ [](assistant = "mock" /\ pc = "delay" => mockTimer.state = "pending" /\ ~Cancelled)
  /\ [](assistant = "mock" /\ pc = "done" /\ Cancelled => MockCancelled(result))

\* the signal has fired during the delay of the second call on the instance
C23_Witness ==
  /\ assistant = "mock"
  /\ nCalls = 1
  /\ pc = "done"
  /\ mockTimer.state = "cleared"
  /\ MockCancelled(result)

\* an uncancelled call on the MockAssistant has ended
MockEnded == assistant = "mock" /\ pc = "done" /\ ~Cancelled

\* C24: a call on the Local Substitute that is not cancelled succeeds, for
\* every userMessage and every history, with the model identifier
\* 'demo-assistant-v1' (no live model identifier, not 'error') and the cost
\* 0.001 (100000 units of 1e-8 dollar).
C24_MockAlwaysSucceeds ==
  MockEnded =>
    /\ result.settled = "resolved"
    /\ result.response # ""
    /\ result.model = "demo-assistant-v1"
    /\ result.model \notin LiveModels \cup CostModels \cup {"error"}
    /\ result.cost = 100000
    /\ result.cost > 0

\* the empty message with a history has been answered
C24_Witness ==
  /\ MockEnded
  /\ userMessage = ""
  /\ conversationHistory # <<>>
  /\ result.settled = "resolved"

\* userMessage matches none of the keyword categories of getSmartMockResponse
NoCategory(um) ==
  \E r \in 1..Len(DefaultResponses) : getSmartMockResponse(um, r) = DefaultResponses[r]

\* C25: the response of an uncancelled call on the Local Substitute whose
\* userMessage matches no keyword category contains userMessage verbatim; so
\* do the responses to 'Hello' and to 'How are you?'.
C25_MockEchoesMessage ==
  (MockEnded /\ (NoCategory(userMessage) \/ userMessage \in {"Hello", "How are you?"})) =>
    /\ result.settled = "resolved"
    /\ Includes(result.response, userMessage)

\* 'How are you?', which matches no category, has been answered with a history
C25_Witness ==
  /\ MockEnded
  /\ userMessage = "How are you?"
  /\ NoCategory(userMessage)
  /\ conversationHistory # <<>>
  /\ Includes(result.response, "How are you?")

\* C26: the Local Substitute chooses its response by case-insensitive keyword
\* inspection of userMessage: the canned message of the demo, export or
\* greeting category when a keyword matches, one of the generic responses
\* only when none matches.
C26_MockKeywordCategories ==
  MockEnded =>
    \E r \in 1..Len(DefaultResponses) :
      result.response = getSmartMockResponse(userMessage, r)

\* the call on the Live Client has ended and tag is what ended its last attempt
EndedWith(tag) ==
  /\ assistant = "live"
  /\ pc = "done"
  /\ log # <<>>
  /\ Last(log) = tag

\* C27: when the provider answers HTTP 402 the result carries the quota
\* message, which is not the generic fallback message.
C27_QuotaMessageFor402 ==
  (EndedWith("http402") /\ ~Cancelled) =>
    /\ result.response = QuotaMessage
    /\ result.response # GenericMessage

\* C28: when the 90 s timer has aborted the attempt that ended the call, the
\* result carries the timeout message, which is not the generic fallback
\* message.
C28_TimeoutMessageForTimeout ==
  (EndedWith("timeout") /\ ~Cancelled) =>
    /\ result.response = TimeoutMessage
    /\ result.response # GenericMessage

\* m is history in its order, turn by turn, followed by the turn of um
HistoryThenMessage(m, history, um) ==
  /\ Len(m) = Len(history) + 1
  /\ \A i \in 1..Len(history) :
       /\ m[i].role = history[i].role
       /\ m[i].content = history[i].content
       /\ DOMAIN m[i] = {"role", "content"}
  /\ m[Len(m)] = [role |-> "user", content |-> um]

\* C29: the message array of every request sent to the provider is the
\* caller's history in its original order, every turn with its role and
\* content, none dropped, merged, reordered or deduplicated, followed by the
\* turn {role: user, content: userMessage}; its length is length(history) + 1.
C29_MessagesAreHistoryThenMessage ==
  (assistant = "live") =>
    \A k \in 1..Len(requests) :
      HistoryThenMessage(requests[k].messages, conversationHistory, userMessage)

\* a request has carried a history whose first and third turn are the same
C29_Witness ==
  /\ assistant = "live"
  /\ Len(requests) >= 1
  /\ Len(conversationHistory) = 3
  /\ conversationHistory[1].content = conversationHistory[3].content
  /\ Len(requests[1].messages) = 4
  /\ requests[1].messages[1] = requests[1].messages[3]

\* C30: within one call on the Live Client the first attempt and every retry
\* hand the same model identifier and the same message array to fetch.
C30_RetriesReusePayload ==
  (assistant = "live") =>
    /\ Len(requests) = fetchCalls
    /\ \A k \in 1..Len(requests) :
         /\ requests[k].model = model
         /\ requests[k].messages = messages
         /\ requests[k] = requests[1]

\* three attempts have been made with a history and a model from the environment
C30_Witness ==
  /\ assistant = "live"
  /\ Len(requests) = maxRetries + 1
  /\ requests[3].model = "vendor/unlisted-model"
  /\ Len(requests[3].messages) = 4

\* a call on the Live Client is in progress
InProgress == assistant = "live" /\ pc \in {"fetching", "body", "backoff"}

\* C31: every call on the Live Client eventually resolves whatever the
\* provider does, also when it never answers and when it sends the response
\* headers and never finishes the body.
C31_EventuallyResolves == InProgress ~> (pc = "done")

\* the provider's answers with a 4xx status other than 401, 402 and 429
ClientErrorAnswers == {"http404", "http400timeout"}

\* C32: an HTTP 4xx status other than 429 is terminal whatever the body of the
\* response contains: once it has been read no further attempt and no back-off
\* follows, and when it answered the first attempt the transport was invoked
\* exactly once.
C32_ClientErrorIsTerminal ==
  (assistant = "live" /\ log # <<>> /\ pc # "body") =>
    \A i \in 1..Len(log) :
      log[i] \in ClientErrorAnswers =>
        /\ i = Len(log)
        /\ pc = "done"
        /\ (i = 1 => fetchCalls = 1 /\ delays = <<>>)

\* C33: when the caller's signal has fired before the Live Client hands the
\* content back from the transport step, the call returns no successful result
\* and the usage counter is not incremented, also when a valid response had
\* already arrived.
C33_CancelledNeverSucceeds ==
  /\ []((assistant = "live" /\ pc = "done" /\ Cancelled) =>
          (result.settled = "resolved" /\ result.model = "error"))
  /\ [][(assistant = "live" /\ signal' = "aborted") => modelUsage' = modelUsage]_vars

\* how a cancelled call on the MockAssistant settles (MockAbort)
MockCancelledSettles == Rejected(CancelledError).settled

\* C34: the Live Client and the Local Substitute report a cancelled call the
\* same way: a cancelled call that has ended on either of them has settled the
\* way the cancelled call on the Local Substitute settles (both resolve or
\* both reject).
C34_SameCancellationReport ==
  (assistant \in {"live", "mock"} /\ pc = "done" /\ Cancelled) =>
    result.settled = MockCancelledSettles

\* C35: getModelUsageStats of the Local Substitute obeys the contract of the
\* Live Client's: it returns no entry on an instance that has completed no
\* call, and the model of every entry is one returned by a successful
\* completion, with count equal to the number of such completions.
C35_MockUsageStatistics ==
  (assistant = "mock") =>
    /\ (\A m \in {MockModel, "mock"} : SuccessfulCalls(m) = 0) =>
         MockGetModelUsageStats = {}
    /\ \A e \in MockGetModelUsageStats :
         /\ SuccessfulCalls(e.model) >= 1
         /\ e.count = SuccessfulCalls(e.model)

\* the last invocation of the transport in the call returned a valid,
\* non-empty completion
CompletionReturned(l) == l # <<>> /\ Last(l) \in ValidAnswers

\* C36: every successful result of the Live Client and every increment of the
\* usage counter is preceded, within the same call, by an invocation of the
\* transport that returned a valid non-empty completion, in every environment
\* (browser included).
C36_SuccessNeedsCompletion ==
  /\ []((assistant = "live" /\ pc = "done" /\ result.model # "error") =>
          (fetchCalls >= 1 /\ CompletionReturned(log)))
  /\ [][(assistant = "live" /\ modelUsage' # modelUsage) =>
          (fetchCalls' >= 1 /\ CompletionReturned(log'))]_vars

\* a call on the Live Client has selected its model
ModelSelected == assistant = "live" /\ pc # "idle" /\ ~IsBlank(userMessage)

\* C37: the model of a call on the Live Client is the configured override
\* (OPENROUTER_MODEL) when one is set and the fixed default
\* 'anthropic/claude-3-haiku' otherwise; it is a function of the configuration
\* alone, and it is the model of every request of the call and of its
\* successful result.
C37_ModelIsOverrideOrDefault ==
  ModelSelected =>
    /\ (envOpenRouterModel # "") => model = envOpenRouterModel
    /\ (envOpenRouterModel = "") => model = "anthropic/claude-3-haiku"
    /\ \A i \in 1..Len(requests) : requests[i].model = model
    /\ (pc = "done" /\ result.model # "error") => result.model = model

\* a call without override has succeeded after a call with the override did
C37_Witness ==
  /\ ModelSelected
  /\ pc = "done"
  /\ envOpenRouterModel = ""
  /\ result.model = "anthropic/claude-3-haiku"
  /\ fetchCalls >= 1
  /\ "vendor/unlisted-model" \in DOMAIN modelUsage

\* a call on the Live Client has ended with a successful completion
Succeeded ==
  /\ assistant = "live"
  /\ pc = "done"
  /\ result.settled = "resolved"
  /\ result.model # "error"

\* the least n with 4 * n >= len
CeilQuarter(len) == CHOOSE n \in 0..len : 4 * n >= len /\ 4 * (n - 1) < len

\* C38: for every successful completion of the Live Client the estimated cost
\* is ceil(length(response) / 4) * rate(model), where the rate is the entry of
\* the cost table and 0.000001 per token (100 units of 1e-8 dollar) for a model
\* the table does not list; the cost is a number and it is strictly positive.
C38_EstimatedCost ==
  Succeeded =>
    LET rate == IF result.model \in CostModels THEN costPerToken(result.model) ELSE 100
    IN  /\ result.cost # NaN
        /\ result.cost = CeilQuarter(Len(result.response)) * rate
        /\ result.cost > 0
====
